---- MODULE Spec2Model ----
(***************************************************************************)
(* Concrete-mix data system: the zod validation schema of the mix forms,   *)
(* the normalisation the forms apply before create/update, the summary     *)
(* aggregations, the store hooks over localStorage with their delays, the  *)
(* entry form, the data table with its CSV export, and the edit modal.     *)
(*                                                                         *)
(* Numbers of the measurement fields (cement, aggregate, sand, water,      *)
(* plastizer, colorQuantity) are counted in hundredths, so 9999.99 is      *)
(* 999999; birta and product quantities are counted in units.              *)
(***************************************************************************)
EXTENDS Integers, Sequences, FiniteSets, TLC

VARIABLES
    cand,        \* validator: the candidate record handed to the schema
    vphase,      \* validator: "input", "validated", "transformed"
    vissues,     \* validator: the issues the schema reported for cand
    vout,        \* validator: the transformedData built by onSubmit
    data,        \* summaries: the records the summary modals received
    aphase,      \* summaries: "input", "totals", "color", "product"
    totals,      \* summaries: result of calculateTotals
    colorGroupedData,    \* summaries: result of calculateColorTotals
    productGroupedData,  \* summaries: result of calculateProductTotals
    form,        \* entry form: the react-hook-form values
    attemptedSubmit, \* entry form: attempted-submit highlighting
    notification,    \* entry form: "none", "success", "error"
    pending,     \* create mutations in flight (their formData), oldest first
    store,       \* localStorage under STORAGE_KEY: missing, or a list of records
    clock,       \* Date.now()
    submitCount, \* entry form: formState.submitCount of react-hook-form
    mutationId,  \* number of mutations started so far
    op,          \* store hooks: the last settled mutation, as its caller saw it
    query,       \* store hooks and data table: the result of the last useMixData query
    inflight,    \* store mutations started and not yet settled, oldest first
    currentPage, \* data table: the page state (page)
    filters,     \* data table: filters.mixType ("" for All Types)
    csv,         \* data table: the rows of the last exported file
    editingMix,  \* data table: the record handed to the edit modal, or none
    editForm,    \* edit modal: the react-hook-form values
    editAttempted,    \* edit modal: attempted-submit highlighting
    editNotification, \* edit modal: "none", "success", "error"
    closeTimers  \* edit modal: pending setTimeout(onClose) calls

valVars == <<cand, vphase, vissues, vout>>
aggVars == <<data, aphase, totals, colorGroupedData, productGroupedData>>
appVars == <<form, attemptedSubmit, notification, pending, store, clock, submitCount, mutationId>>
stoVars == <<op, query>>
tableVars == <<currentPage, filters, csv, editingMix>>
editVars == <<editForm, editAttempted, editNotification, closeTimers>>
uiVars == <<inflight, tableVars, editVars>>

vars == <<valVars, aggVars, appVars, stoVars, uiVars>>

(***************************************************************************)
(* JavaScript values.  A number-typed field holds a number, NaN (an empty  *)
(* number input read with valueAsNumber), undefined or null.  An optional  *)
(* products field holds an array or is undefined.                          *)
(***************************************************************************)
JsKinds == {"number", "array", "undefined", "null", "nan"}

Num(v) == [k |-> "number", n |-> v]
NaN == [k |-> "nan", n |-> 0]
Undefined == [k |-> "undefined", n |-> 0]
Null == [k |-> "null", n |-> 0]

Arr(s) == [k |-> "array", items |-> s]
NoProducts == [k |-> "undefined", items |-> <<>>]

Range(s) == {s[i] : i \in 1..Len(s)}

(***************************************************************************)
(* validation.ts                                                           *)
(***************************************************************************)
colorOptions == {"Red", "Pure Red", "White", "Black", "Yellow"}

interlockTypes == {"Block Interlock", "Buuor Interlock", "Daimond Interlock",
                   "Tiiba Talyaani Interlock", "York Shir Interlock", "Garden"}

boardsTiirTypes == {"Tiir", "Boards"}

MixTypes == {"interlock", "boards/tiir"}

MaxMeasurement == 999999
MaxBirta == 9999
MaxQuantity == 9999

\* One zod issue: the path is field, or field.index.sub for a product entry
\* (index counts from 1 here, and is 0 for an issue on the field itself).
Issue(field, index, sub, code, message) ==
    [field |-> field, index |-> index, sub |-> sub, code |-> code, message |-> message]

\* z.number().min(0, minMsg).max(max, maxMsg) at the given path.  A value that
\* is not a number (NaN, null, undefined) is an invalid_type issue.
zNumber(field, index, sub, v, max, minMsg, maxMsg) ==
    IF v.k # "number"
    THEN {Issue(field, index, sub, "invalid_type", "")}
    ELSE (IF v.n < 0 THEN {Issue(field, index, sub, "too_small", minMsg)} ELSE {})
         \cup (IF v.n > max THEN {Issue(field, index, sub, "too_big", maxMsg)} ELSE {})

\* z.number().min(0).max(9999).optional(): undefined passes, anything else is
\* checked as a number.
zOptionalNumber(field, v, max) ==
    IF v.k = "undefined" THEN {} ELSE zNumber(field, 0, "", v, max, "", "")

\* productSchema applied to the entry at position i of products.
productSchema(p, i) ==
    (IF p.type = ""
     THEN {Issue("products", i, "type", "too_small", "Product type is required")}
     ELSE {})
    \cup zNumber("products", i, "quantity", p.quantity, MaxQuantity,
                 "Quantity must be positive", "Quantity too large")

\* Mutant of zProducts: the list may be empty.
zProducts_allowsEmpty(ps) ==
    IF ps.k # "array"
    THEN {Issue("products", 0, "", "invalid_type", "")}
    ELSE UNION {productSchema(ps.items[i], i) : i \in 1..Len(ps.items)}

\* z.array(productSchema).min(1, ...)
zProducts(ps) ==
    IF ps.k # "array"
    THEN {Issue("products", 0, "", "invalid_type", "")}
    ELSE (IF Len(ps.items) < 1
          THEN {Issue("products", 0, "", "too_small", "At least one product is required")}
          ELSE {})
         \cup UNION {productSchema(ps.items[i], i) : i \in 1..Len(ps.items)}

\* The z.object({...}) of mixDataSchema, before its refinements.
zObject(d) ==
    (IF d.mixType \in MixTypes THEN {}
     ELSE {Issue("mixType", 0, "", "invalid_enum_value", "")})
    \cup zNumber("cement", 0, "", d.cement, MaxMeasurement, "", "")
    \cup zNumber("aggregate", 0, "", d.aggregate, MaxMeasurement, "", "")
    \cup zNumber("sand", 0, "", d.sand, MaxMeasurement, "", "")
    \cup zNumber("water", 0, "", d.water, MaxMeasurement, "", "")
    \cup zNumber("plastizer", 0, "", d.plastizer, MaxMeasurement, "", "")
    \cup zOptionalNumber("birta", d.birta, MaxBirta)
    \cup zNumber("colorQuantity", 0, "", d.colorQuantity, MaxMeasurement, "", "")
    \cup zProducts(d.products)

\* zod stops before the refinements of an object whose parse was aborted: a
\* type error (invalid_type, invalid_enum_value) aborts, a failed min/max
\* check only marks the value dirty.
zAborted(d) ==
    \E iss \in zObject(d) : iss.code \in {"invalid_type", "invalid_enum_value"}

\* products.map(p => p.type).filter(Boolean): the non-empty types, in order.
RECURSIVE truthyTypes(_)
truthyTypes(s) ==
    IF s = <<>> THEN <<>>
    ELSE IF Head(s).type = "" THEN truthyTypes(Tail(s))
         ELSE <<Head(s).type>> \o truthyTypes(Tail(s))

\* types.length === new Set(types).size
noDuplicateTypes(s) == Len(truthyTypes(s)) = Cardinality(Range(truthyTypes(s)))

\* The five refinement predicates, in the order they are chained.
refineBirta(d) ==
    ~(d.mixType = "boards/tiir" /\ d.birta.k \in {"undefined", "null"})

\* Mutant of refineColorType: every string is let through.
refineColorType_allowsAny(d) == TRUE

\* Mutant of refineColorType: the sentinel is let through as well.
refineColorType_allowsNoColor(d) ==
    d.colorType = "" \/ d.colorType \in colorOptions \cup {"No Color"}

refineColorType(d) == d.colorType = "" \/ d.colorType \in colorOptions

refineProductTypes(d) ==
    IF d.products.k = "array" /\ Len(d.products.items) > 0
    THEN IF d.mixType = "interlock"
         THEN \A i \in 1..Len(d.products.items) : d.products.items[i].type \in interlockTypes
         ELSE IF d.mixType = "boards/tiir"
              THEN \A i \in 1..Len(d.products.items) : d.products.items[i].type \in boardsTiirTypes
              ELSE TRUE
    ELSE TRUE

refineInterlockDuplicates(d) ==
    IF d.mixType = "interlock" /\ d.products.k = "array" /\ Len(d.products.items) > 0
    THEN noDuplicateTypes(d.products.items)
    ELSE TRUE

refineBoardsTiirDuplicates(d) ==
    IF d.mixType = "boards/tiir" /\ d.products.k = "array" /\ Len(d.products.items) > 0
    THEN noDuplicateTypes(d.products.items)
    ELSE TRUE

refinementIssues(d) ==
    (IF refineBirta(d) THEN {}
     ELSE {Issue("birta", 0, "", "custom", "Birta is required for boards/tiir mix type")})
    \cup (IF refineColorType(d) THEN {}
          ELSE {Issue("colorType", 0, "", "custom", "Invalid color type")})
    \cup (IF refineProductTypes(d) THEN {}
          ELSE {Issue("products", 0, "", "custom", "Invalid product type for selected mix type")})
    \cup (IF refineInterlockDuplicates(d) THEN {}
          ELSE {Issue("products", 0, "", "custom", "Cannot select the same interlock type twice")})
    \cup (IF refineBoardsTiirDuplicates(d) THEN {}
          ELSE {Issue("products", 0, "", "custom", "Cannot select the same product type twice")})

\* mixDataSchema.safeParse(d): the issues reported; none means d is accepted.
mixDataSchema(d) ==
    zObject(d) \cup (IF zAborted(d) THEN {} ELSE refinementIssues(d))

\* Mutant of transformedData: the empty colorType is passed through.
transformedData_keepsEmpty(d) == d

\* onSubmit's transformedData: { ...data, colorType: data.colorType || 'No Color' }
transformedData(d) ==
    [d EXCEPT !.colorType = IF d.colorType = "" THEN "No Color" ELSE d.colorType]

(***************************************************************************)
(* Candidate records handed to the validator.  The samples cover, for each *)
(* rule, values that pass it, values that fail a min/max check and values  *)
(* of the wrong type.                                                      *)
(***************************************************************************)
Product(type, quantity) == [type |-> type, quantity |-> Num(quantity)]

CementSamples == {Num(35000), Num(MaxMeasurement + 1), NaN}
AggregateSamples == {Num(120000), NaN}
SandSamples == {Num(80000)}
WaterSamples == {Num(17500)}
PlastizerSamples == {Num(500), Num(MaxMeasurement + 1)}
ColorQuantitySamples == {Num(2500), Num(MaxMeasurement + 1)}
BirtaSamples == {Undefined, Null, NaN, Num(50), Num(MaxBirta + 1)}
ColorSamples == {""} \cup colorOptions \cup {"No Color", "Purple"}

ProductListSamples ==
    { NoProducts,
      Arr(<<>>),
      Arr(<<Product("Garden", 100)>>),
      Arr(<<Product("Block Interlock", 100), Product("Garden", 50)>>),
      Arr(<<Product("Garden", 10), Product("Garden", 5)>>),
      Arr(<<Product("Garden", 10), Product("Block Interlock", 100), Product("Garden", 5)>>),
      Arr(<<Product("Tiir", 200), Product("Boards", 150)>>),
      Arr(<<Product("Tiir", 200), Product("Tiir", 20)>>),
      Arr(<<Product("Boards", 150), Product("Tiir", 200), Product("Boards", 1)>>),
      Arr(<<Product("Tiir", 200), Product("Garden", 50)>>),
      Arr(<<Product("Paving", 5)>>),
      Arr(<<Product("", 0)>>),
      Arr(<<Product("", 0), Product("", 0)>>),
      Arr(<<Product("Garden", MaxQuantity + 1)>>),
      Arr(<<Product("Garden", -1)>>),
      Arr(<<[type |-> "Garden", quantity |-> NaN]>>) }

Candidates ==
    [mixType : MixTypes,
     cement : CementSamples,
     aggregate : AggregateSamples,
     sand : SandSamples,
     water : WaterSamples,
     plastizer : PlastizerSamples,
     birta : BirtaSamples,
     colorType : ColorSamples,
     colorQuantity : ColorQuantitySamples,
     products : ProductListSamples]

(***************************************************************************)
(* Stored records (types/index.ts).  measurements always carries the keys  *)
(* birta and products; an omitted one is Undefined / NoProducts.           *)
(***************************************************************************)
Measurements(cement, aggregate, sand, water, plastizer, birta, colorType, colorQuantity, products) ==
    [cement |-> cement, aggregate |-> aggregate, sand |-> sand, water |-> water,
     plastizer |-> plastizer, birta |-> birta, colorType |-> colorType,
     colorQuantity |-> colorQuantity, products |-> products]

MixData(id, timestamp, mixType, measurements, lastModified) ==
    [id |-> id, timestamp |-> timestamp, mixType |-> mixType,
     measurements |-> measurements, createdBy |-> "demo-user",
     lastModified |-> lastModified]

(***************************************************************************)
(* The summary modals: calculateTotals (TotalProductsModal) and            *)
(* calculateColorTotals / calculateProductTotals (FilteredProductsModal).  *)
(* A Record<string, number> is a function whose domain is the keys set so  *)
(* far.                                                                    *)
(***************************************************************************)
EmptyMap == [x \in {} |-> 0]

\* Mutant of guardProducts: the guard is left out.
guardProducts_leftOut(mix) == TRUE

\* if (mix.measurements.products): an array is truthy, undefined is not.
guardProducts(mix) == mix.measurements.products.k = "array"

\* Mutant of addQuantity: the quantity is assigned, not added.
addQuantity_assigns(m, key, q) ==
    IF key \in DOMAIN m THEN [m EXCEPT ![key] = q] ELSE m @@ (key :> q)

\* totals[key] = (totals[key] || 0) + quantity
addQuantity(m, key, q) ==
    IF key \in DOMAIN m THEN [m EXCEPT ![key] = @ + q] ELSE m @@ (key :> q)

\* products.forEach(product => totals[product.type] = ...)
RECURSIVE addProducts(_, _)
addProducts(m, items) ==
    IF items = <<>> THEN m
    ELSE addProducts(addQuantity(m, Head(items).type, Head(items).quantity.n), Tail(items))

\* products.forEach on a value that is not an array throws a TypeError; it is
\* reached only for a record that passed the guard.
forEachThrows(d) ==
    \E i \in 1..Len(d) : guardProducts(d[i]) /\ d[i].measurements.products.k # "array"

\* One pass of calculateTotals' data.data.forEach.
RECURSIVE totalsFrom(_, _)
totalsFrom(acc, d) ==
    IF d = <<>> THEN acc
    ELSE LET mix == Head(d)
             next == IF ~guardProducts(mix) THEN acc
                     ELSE IF mix.mixType = "interlock"
                          THEN [acc EXCEPT !.interlockTotals =
                                   addProducts(@, mix.measurements.products.items)]
                          ELSE IF mix.mixType = "boards/tiir"
                               THEN [acc EXCEPT !.boardsTiirTotals =
                                        addProducts(@, mix.measurements.products.items)]
                               ELSE acc
         IN totalsFrom(next, Tail(d))

calculateTotals(d) ==
    [threw |-> forEachThrows(d)] @@
    totalsFrom([interlockTotals |-> EmptyMap, boardsTiirTotals |-> EmptyMap], d)

\* Object.values(totals).reduce((sum, qty) => sum + qty, 0)
RECURSIVE getTotalQuantity(_)
getTotalQuantity(m) ==
    IF DOMAIN m = {} THEN 0
    ELSE LET key == CHOOSE x \in DOMAIN m : TRUE
         IN m[key] + getTotalQuantity([x \in DOMAIN m \ {key} |-> m[x]])

\* The grand total TotalProductsModal renders.
totalsGrandTotal(t) ==
    getTotalQuantity(t.interlockTotals) + getTotalQuantity(t.boardsTiirTotals)

\* Mutant of colorOf: the colorType is used as it is.
colorOf_asStored(mix) == mix.measurements.colorType

\* const color = mix.measurements.colorType || 'No Color'
colorOf(mix) ==
    IF mix.measurements.colorType = "" THEN "No Color" ELSE mix.measurements.colorType

\* One pass of calculateColorTotals' data.data.forEach.
RECURSIVE colorTotalsFrom(_, _)
colorTotalsFrom(g, d) ==
    IF d = <<>> THEN g
    ELSE LET mix == Head(d)
             color == colorOf(mix)
             g1 == IF color \in DOMAIN g THEN g ELSE g @@ (color :> EmptyMap)
             g2 == IF mix.mixType \in DOMAIN g1[color] THEN g1
                   ELSE [g1 EXCEPT ![color] = @ @@ (mix.mixType :> EmptyMap)]
             g3 == IF ~guardProducts(mix) THEN g2
                   ELSE [g2 EXCEPT ![color][mix.mixType] =
                            addProducts(@, mix.measurements.products.items)]
         IN colorTotalsFrom(g3, Tail(d))

calculateColorTotals(d) ==
    [threw |-> forEachThrows(d), groupedData |-> colorTotalsFrom(EmptyMap, d)]

\* Mutant of addProductColors: the quantity replaces the bucket.
RECURSIVE addProductColors_overwrites(_, _, _)
addProductColors_overwrites(g, color, items) ==
    IF items = <<>> THEN g
    ELSE LET productType == Head(items).type
             g1 == IF productType \in DOMAIN g THEN g ELSE g @@ (productType :> EmptyMap)
             g2 == [g1 EXCEPT ![productType] =
                       addQuantity_assigns(@, color, Head(items).quantity.n)]
         IN addProductColors_overwrites(g2, color, Tail(items))

\* groupedData[productType][color] = (groupedData[productType][color] || 0) + quantity
RECURSIVE addProductColors(_, _, _)
addProductColors(g, color, items) ==
    IF items = <<>> THEN g
    ELSE LET productType == Head(items).type
             g1 == IF productType \in DOMAIN g THEN g ELSE g @@ (productType :> EmptyMap)
             g2 == [g1 EXCEPT ![productType] = addQuantity(@, color, Head(items).quantity.n)]
         IN addProductColors(g2, color, Tail(items))

\* One pass of calculateProductTotals' data.data.forEach.
RECURSIVE productTotalsFrom(_, _)
productTotalsFrom(g, d) ==
    IF d = <<>> THEN g
    ELSE LET mix == Head(d)
             next == IF ~guardProducts(mix) THEN g
                     ELSE addProductColors(g, colorOf(mix), mix.measurements.products.items)
         IN productTotalsFrom(next, Tail(d))

calculateProductTotals(d) ==
    [threw |-> forEachThrows(d), groupedData |-> productTotalsFrom(EmptyMap, d)]

\* getTotalForColor: the sum over the color's mix types of their quantities.
RECURSIVE getTotalForColor(_)
getTotalForColor(colorData) ==
    IF DOMAIN colorData = {} THEN 0
    ELSE LET key == CHOOSE x \in DOMAIN colorData : TRUE
         IN getTotalQuantity(colorData[key])
            + getTotalForColor([x \in DOMAIN colorData \ {key} |-> colorData[x]])

\* getTotalForProduct
getTotalForProduct(productData) == getTotalQuantity(productData)

\* getGrandTotal for the active tab, "color" or "product".
RECURSIVE sumColors(_)
sumColors(g) ==
    IF DOMAIN g = {} THEN 0
    ELSE LET key == CHOOSE x \in DOMAIN g : TRUE
         IN getTotalForColor(g[key]) + sumColors([x \in DOMAIN g \ {key} |-> g[x]])

RECURSIVE sumProducts(_)
sumProducts(g) ==
    IF DOMAIN g = {} THEN 0
    ELSE LET key == CHOOSE x \in DOMAIN g : TRUE
         IN getTotalForProduct(g[key]) + sumProducts([x \in DOMAIN g \ {key} |-> g[x]])

getGrandTotal(activeTab, colorGrouped, productGrouped) ==
    IF activeTab = "color" THEN sumColors(colorGrouped) ELSE sumProducts(productGrouped)

(***************************************************************************)
(* The validator applied to one candidate: the resolver runs the schema,   *)
(* and onSubmit builds transformedData from data the schema accepted.      *)
(***************************************************************************)
ValIdle ==
    /\ cand = [mixType |-> "interlock"]
    /\ vphase = "idle"
    /\ vissues = {}
    /\ vout = [mixType |-> "interlock"]

Validate ==
    /\ vphase = "input"
    /\ vissues' = mixDataSchema(cand)
    /\ vphase' = "validated"
    /\ UNCHANGED <<cand, vout, aggVars, appVars, stoVars, uiVars>>

Transform ==
    /\ vphase = "validated"
    /\ vissues = {}
    /\ vout' = transformedData(cand)
    /\ vphase' = "transformed"
    /\ UNCHANGED <<cand, vissues, aggVars, appVars, stoVars, uiVars>>

(***************************************************************************)
(* The summary modals applied to one collection of records.                *)
(***************************************************************************)
MaxRecords == 2

SummaryColorSamples == {"", "Red", "No Color"}

SummaryProductSamples ==
    { NoProducts,
      Arr(<<>>),
      Arr(<<Product("Garden", 10)>>),
      Arr(<<Product("Garden", 5)>>),
      Arr(<<Product("Block Interlock", 100), Product("Garden", 50)>>),
      Arr(<<Product("Tiir", 200), Product("Boards", 150)>>) }

SummaryRecordSamples ==
    { MixData(0, 0, mixType,
              Measurements(Num(35000), Num(120000), Num(80000), Num(17500), Num(500),
                           IF mixType = "boards/tiir" THEN Num(50) ELSE Undefined,
                           colorType, Num(2500), products),
              0) :
        mixType \in MixTypes, colorType \in SummaryColorSamples,
        products \in SummaryProductSamples }

\* A collection built from the samples s: the record at position i has id i.
Collection(s) == [i \in DOMAIN s |-> [s[i] EXCEPT !.id = i]]

NoTotals == [threw |-> FALSE, interlockTotals |-> EmptyMap, boardsTiirTotals |-> EmptyMap]
NoGrouped == [threw |-> FALSE, groupedData |-> EmptyMap]

AggIdle ==
    /\ data = <<>>
    /\ aphase = "idle"
    /\ totals = NoTotals
    /\ colorGroupedData = NoGrouped
    /\ productGroupedData = NoGrouped

RenderTotals ==
    /\ aphase = "input"
    /\ totals' = calculateTotals(data)
    /\ aphase' = "totals"
    /\ UNCHANGED <<data, colorGroupedData, productGroupedData, valVars, appVars, stoVars, uiVars>>

RenderColorTotals ==
    /\ aphase = "totals"
    /\ colorGroupedData' = calculateColorTotals(data)
    /\ aphase' = "color"
    /\ UNCHANGED <<data, totals, productGroupedData, valVars, appVars, stoVars, uiVars>>

RenderProductTotals ==
    /\ aphase = "color"
    /\ productGroupedData' = calculateProductTotals(data)
    /\ aphase' = "product"
    /\ UNCHANGED <<data, totals, colorGroupedData, valVars, appVars, stoVars, uiVars>>

(***************************************************************************)
(* The mock record store (hooks/useMixData).                               *)
(***************************************************************************)
Day == 86400000
LoadTime == 1000000000

\* The demo records; their timestamps are taken when the module is loaded.
mockMixData ==
    << MixData(1, LoadTime, "interlock",
               Measurements(Num(35000), Num(120000), Num(80000), Num(17500), Num(500),
                            Undefined, "Red", Num(2500),
                            Arr(<<Product("Block Interlock", 100), Product("Garden", 50)>>)),
               LoadTime),
       MixData(2, LoadTime - Day, "boards/tiir",
               Measurements(Num(40000), Num(110000), Num(75000), Num(20000), Num(800),
                            Num(50), "White", Num(3000),
                            Arr(<<Product("Tiir", 200), Product("Boards", 150)>>)),
               LoadTime - Day) >>

StorageMissing == [k |-> "missing", items |-> <<>>]
\* A stored text JSON.parse throws on, and a storage whose getItem throws.
StorageUnparseable == [k |-> "unparseable", items |-> <<>>]
StorageUnreadable == [k |-> "unreadable", items |-> <<>>]
StorageList(items) == [k |-> "list", items |-> items]

\* JSON.stringify followed by JSON.parse: a NaN number comes back as null, an
\* undefined property is left out, every other value comes back as it was.
jsonValue(v) == IF v.k = "nan" THEN Null ELSE v

jsonProducts(ps) ==
    IF ps.k = "array"
    THEN Arr([i \in 1..Len(ps.items) |->
                 [type |-> ps.items[i].type, quantity |-> jsonValue(ps.items[i].quantity)]])
    ELSE ps

jsonRecord(r) ==
    [r EXCEPT !.measurements =
        [cement |-> jsonValue(@.cement), aggregate |-> jsonValue(@.aggregate),
         sand |-> jsonValue(@.sand), water |-> jsonValue(@.water),
         plastizer |-> jsonValue(@.plastizer), birta |-> jsonValue(@.birta),
         colorType |-> @.colorType, colorQuantity |-> jsonValue(@.colorQuantity),
         products |-> jsonProducts(@.products)]]

jsonRoundTrip(records) == [i \in 1..Len(records) |-> jsonRecord(records[i])]

\* Mutant of getStoredData: the catch branch returns an empty list.
getStoredData_emptyOnError(st) ==
    IF st.k = "list" THEN st.items ELSE IF st.k = "missing" THEN mockMixData ELSE <<>>

\* try { stored ? JSON.parse(stored) : mockMixData } catch { mockMixData }
getStoredData(st) == IF st.k = "list" THEN st.items ELSE mockMixData

\* localStorage.setItem(STORAGE_KEY, JSON.stringify(data)) inside try/catch:
\* when setItem throws, the error is logged and the storage keeps its content.
setStoredData(st, records, throws) ==
    IF throws THEN st ELSE StorageList(jsonRoundTrip(records))

\* The record useCreateMixData builds from formData at time now.
newMixData(formData, now) ==
    MixData(now, now, formData.mixType,
            Measurements(formData.cement, formData.aggregate, formData.sand,
                         formData.water, formData.plastizer,
                         IF formData.birta.k # "undefined" THEN formData.birta ELSE Undefined,
                         IF formData.colorType = "" THEN "No Color" ELSE formData.colorType,
                         formData.colorQuantity,
                         IF formData.products.k = "array" THEN formData.products ELSE NoProducts),
            now)

\* useCreateMixData mutationFn: the list written to storage.
createdData(st, formData, now) == <<newMixData(formData, now)>> \o getStoredData(st)

\* Mutant of updatedItem: the creation timestamp is refreshed too.
updatedItem_restamped(item, formData, now) ==
    [item EXCEPT !.mixType = formData.mixType,
                 !.measurements = newMixData(formData, now).measurements,
                 !.timestamp = now,
                 !.lastModified = now]

\* useUpdateMixData mutationFn: the record an item with the id is replaced by.
updatedItem(item, formData, now) ==
    [item EXCEPT !.mixType = formData.mixType,
                 !.measurements = newMixData(formData, now).measurements,
                 !.lastModified = now]

\* useUpdateMixData mutationFn: existingData.map(...).
updatedData(st, id, formData, now) ==
    LET existingData == getStoredData(st)
    IN [i \in 1..Len(existingData) |->
           IF existingData[i].id = id
           THEN updatedItem(existingData[i], formData, now)
           ELSE existingData[i]]

\* Array.prototype.find: the first element with the id, or undefined (<<>>).
find(records, id) ==
    LET hits == SelectSeq(records, LAMBDA r : r.id = id)
    IN IF hits = <<>> THEN <<>> ELSE <<Head(hits)>>

\* useDeleteMixData mutationFn: existingData.filter(item => item.id !== id).
deletedData(st, id) == SelectSeq(getStoredData(st), LAMBDA r : r.id # id)

\* data.sort((a, b) => b.timestamp - a.timestamp): a stable sort, newest first.
RECURSIVE insertNewestFirst(_, _)
insertNewestFirst(sorted, r) ==
    IF sorted = <<>> THEN <<r>>
    ELSE IF Head(sorted).timestamp >= r.timestamp
         THEN <<Head(sorted)>> \o insertNewestFirst(Tail(sorted), r)
         ELSE <<r>> \o sorted

RECURSIVE sortNewestFirst(_)
sortNewestFirst(records) ==
    IF records = <<>> THEN <<>>
    ELSE insertNewestFirst(sortNewestFirst(SubSeq(records, 1, Len(records) - 1)),
                           records[Len(records)])

\* Math.ceil(count / pageSize)
ceilDiv(count, pageSize) == (count + pageSize - 1) \div pageSize

\* Mutant of slice: the element at position to is taken as well.
slice_inclusive(records, from, to) ==
    LET last == IF to + 1 < Len(records) THEN to + 1 ELSE Len(records)
    IN IF from >= last THEN <<>> ELSE SubSeq(records, from + 1, last)

\* Array.prototype.slice(from, to), positions counted from 0.
slice(records, from, to) ==
    LET last == IF to < Len(records) THEN to ELSE Len(records)
    IN IF from >= last THEN <<>> ELSE SubSeq(records, from + 1, last)

\* useMixData queryFn; mixTypeFilter is "" when filters?.mixType is not set.
useMixData(st, page, pageSize, mixTypeFilter) ==
    LET stored == getStoredData(st)
        filtered == IF mixTypeFilter # ""
                    THEN SelectSeq(stored, LAMBDA r : r.mixType = mixTypeFilter)
                    ELSE stored
        sorted == sortNewestFirst(filtered)
        from == (page - 1) * pageSize
    IN [data |-> slice(sorted, from, from + pageSize),
        count |-> Len(sorted),
        totalPages |-> ceilDiv(Len(sorted), pageSize)]

\* What the caller of a mutation gets once it settles: the arguments, the time
\* of the write, whether setItem threw, the status of the promise and the
\* value it resolved with (a record, or nothing).
Settled(name, id, formData, now, threw, status, value) ==
    [name |-> name, id |-> id, formData |-> formData, now |-> now, threw |-> threw,
     status |-> status, value |-> value]

NoOp == Settled("none", 0, <<>>, 0, FALSE, "idle", <<>>)
NoQuery == [page |-> 0, pageSize |-> 0, mixType |-> "", data |-> <<>>, count |-> 0, totalPages |-> 0]

StoIdle == op = NoOp /\ query = NoQuery

(***************************************************************************)
(* The store hooks called directly (StoreSpec).  The callers are the two   *)
(* forms, which hand over transformedData of data the schema accepted, and *)
(* the table, which hands over ids of records it was shown.                *)
(***************************************************************************)
MaxOps == 2

StoreCandidates ==
    { [mixType |-> "interlock", cement |-> Num(30000), aggregate |-> Num(100000),
       sand |-> Num(70000), water |-> Num(15000), plastizer |-> Num(400),
       birta |-> Undefined, colorType |-> "", colorQuantity |-> Num(0),
       products |-> Arr(<<Product("Garden", 10)>>)],
      [mixType |-> "boards/tiir", cement |-> Num(999999), aggregate |-> Num(1),
       sand |-> Num(0), water |-> Num(12345), plastizer |-> Num(99),
       birta |-> Num(9999), colorType |-> "Yellow", colorQuantity |-> Num(1000),
       products |-> Arr(<<Product("Tiir", 200)>>)],
      [mixType |-> "interlock", cement |-> Num(30000), aggregate |-> Num(100000),
       sand |-> Num(70000), water |-> Num(15000), plastizer |-> Num(400),
       birta |-> Undefined, colorType |-> "Purple", colorQuantity |-> Num(0),
       products |-> Arr(<<Product("Garden", 10)>>)] }

\* What the forms hand to the mutations.
StoreInputs == {transformedData(c) : c \in {d \in StoreCandidates : mixDataSchema(d) = {}}}

\* The ids the table can hand over: those of the demo records and of the
\* records stored now; an id is stale once its record is deleted.
KnownIds == {mockMixData[i].id : i \in 1..Len(mockMixData)}
               \cup {getStoredData(store)[i].id : i \in 1..Len(getStoredData(store))}

PageSamples == {1, 2}
PageSizeSamples == {2}
FilterSamples == {"", "interlock", "boards/tiir"}

\* useCreateMixData: the mutation settles.
CreateMixData(formData) ==
    /\ mutationId < MaxOps
    /\ \E now \in {clock, clock + 1}, throws \in BOOLEAN :
          /\ clock' = now
          /\ store' = setStoredData(store, createdData(store, formData, now), throws)
          /\ op' = Settled("create", now, <<formData>>, now, throws, "success",
                           <<newMixData(formData, now)>>)
    /\ mutationId' = mutationId + 1
    /\ UNCHANGED <<query, form, attemptedSubmit, notification, pending, submitCount,
                   valVars, aggVars, uiVars>>

\* useUpdateMixData: the mutation settles.
UpdateMixData(id, formData) ==
    /\ mutationId < MaxOps
    /\ \E now \in {clock, clock + 1}, throws \in BOOLEAN :
          /\ clock' = now
          /\ store' = setStoredData(store, updatedData(store, id, formData, now), throws)
          /\ op' = Settled("update", id, <<formData>>, now, throws, "success",
                           find(updatedData(store, id, formData, now), id))
    /\ mutationId' = mutationId + 1
    /\ UNCHANGED <<query, form, attemptedSubmit, notification, pending, submitCount,
                   valVars, aggVars, uiVars>>

\* useDeleteMixData: the mutation settles.
DeleteMixData(id) ==
    /\ mutationId < MaxOps
    /\ \E throws \in BOOLEAN :
          /\ store' = setStoredData(store, deletedData(store, id), throws)
          /\ op' = Settled("delete", id, <<>>, clock, throws, "success", <<>>)
    /\ mutationId' = mutationId + 1
    /\ UNCHANGED <<clock, query, form, attemptedSubmit, notification, pending, submitCount,
                   valVars, aggVars, uiVars>>

\* useMixData: the query settles.
QueryMixData(page, pageSize, mixTypeFilter) ==
    /\ query' = [page |-> page, pageSize |-> pageSize, mixType |-> mixTypeFilter] @@
                useMixData(store, page, pageSize, mixTypeFilter)
    /\ UNCHANGED <<op, appVars, valVars, aggVars, uiVars>>

(***************************************************************************)
(* The entry form (MixEntryForm).                                          *)
(***************************************************************************)
MaxProducts == 2
MaxCreates == 1
MaxSubmits == 1
MaxPending == 2

defaultValues ==
    [mixType |-> "interlock", cement |-> Num(0), aggregate |-> Num(0), sand |-> Num(0),
     water |-> Num(0), plastizer |-> Num(0), birta |-> Undefined, colorType |-> "",
     colorQuantity |-> Num(0), products |-> Arr(<<>>)]

\* What the user types or picks.
BirtaInputs == {NaN, Num(50)}
ColorChoices == {"", "Red"}
InterlockChoices == {"", "Garden", "Block Interlock"}
QuantityInputs == {Num(100)}

\* Mutant of mixTypeEffect: the product list is left as it is.
mixTypeEffect_keepsProducts(f) == [f EXCEPT !.colorType = ""]

\* The effect keyed on mixType: setValue('colorType', ''), setValue('products', []).
mixTypeEffect(f) == [f EXCEPT !.colorType = "", !.products = Arr(<<>>)]

\* The birta input is rendered only for boards/tiir.  When it mounts over a
\* form value that is undefined, the empty number input is read with
\* valueAsNumber; when it unmounts, the form value stays.
birtaInputMounts(f) ==
    IF f.mixType = "boards/tiir" /\ f.birta.k = "undefined"
    THEN [f EXCEPT !.birta = NaN]
    ELSE f

productTypes(f) == {f.products.items[i].type : i \in 1..Len(f.products.items)}

\* getAvailableInterlockTypes
getAvailableInterlockTypes(f) == interlockTypes \ productTypes(f)

\* isBoardsTiirTypeSelected
isBoardsTiirTypeSelected(f, type) == type \in productTypes(f)

RemoveAt(s, i) == [j \in 1..(Len(s) - 1) |-> IF j < i THEN s[j] ELSE s[j + 1]]

\* The mix type radio buttons.
ChooseMixType(t) ==
    /\ t # form.mixType
    /\ form' = birtaInputMounts(mixTypeEffect([form EXCEPT !.mixType = t]))
    /\ attemptedSubmit' = FALSE
    /\ UNCHANGED <<notification, pending, store, clock, submitCount, mutationId, valVars, aggVars, stoVars, uiVars>>

\* The color select.
ChooseColor(c) ==
    /\ form' = [form EXCEPT !.colorType = c]
    /\ UNCHANGED <<attemptedSubmit, notification, pending, store, clock, submitCount, mutationId, valVars, aggVars, stoVars, uiVars>>

\* The birta number input.
EnterBirta(v) ==
    /\ form.mixType = "boards/tiir"
    /\ form' = [form EXCEPT !.birta = v]
    /\ UNCHANGED <<attemptedSubmit, notification, pending, store, clock, submitCount, mutationId, valVars, aggVars, stoVars, uiVars>>

\* addProduct behind its buttons: "Add Interlock Type", "Add Tiir", "Add Boards".
addProduct(type) ==
    /\ Len(form.products.items) < MaxProducts
    /\ IF form.mixType = "interlock"
       THEN /\ type = ""
            /\ getAvailableInterlockTypes(form) # {}
            /\ form' = [form EXCEPT !.products =
                           Arr(Append(@.items, [type |-> "", quantity |-> Num(0)]))]
       ELSE /\ type \in boardsTiirTypes
            /\ ~isBoardsTiirTypeSelected(form, type)
            /\ form' = [form EXCEPT !.products =
                           Arr(Append(@.items, [type |-> type, quantity |-> Num(0)]))]
    /\ UNCHANGED <<attemptedSubmit, notification, pending, store, clock, submitCount, mutationId, valVars, aggVars, stoVars, uiVars>>

\* The interlock type select of product i: an option already selected in
\* another row is disabled.
SelectInterlockType(i, t) ==
    /\ form.mixType = "interlock"
    /\ i \in 1..Len(form.products.items)
    /\ t = "" \/ \A j \in 1..Len(form.products.items) : j # i => form.products.items[j].type # t
    /\ form' = [form EXCEPT !.products = Arr([@.items EXCEPT ![i].type = t])]
    /\ UNCHANGED <<attemptedSubmit, notification, pending, store, clock, submitCount, mutationId, valVars, aggVars, stoVars, uiVars>>

\* The quantity input of product i.
EnterQuantity(i, v) ==
    /\ i \in 1..Len(form.products.items)
    /\ form' = [form EXCEPT !.products = Arr([@.items EXCEPT ![i].quantity = v])]
    /\ UNCHANGED <<attemptedSubmit, notification, pending, store, clock, submitCount, mutationId, valVars, aggVars, stoVars, uiVars>>

\* The remove button of product i.
remove(i) ==
    /\ i \in 1..Len(form.products.items)
    /\ form' = [form EXCEPT !.products = Arr(RemoveAt(@.items, i))]
    /\ UNCHANGED <<attemptedSubmit, notification, pending, store, clock, submitCount, mutationId, valVars, aggVars, stoVars, uiVars>>

\* The submit button: handleSubmit runs the resolver and calls onSubmit only
\* with data the schema accepted; onSubmit sets attemptedSubmit, builds
\* transformedData and starts the create mutation.  With data the schema turns
\* down handleSubmit records the errors and counts the submit, and onSubmit is
\* not called.  The button stays enabled while a create is pending (it only
\* reads "Saving..."); beyond MaxCreates, a further submit is explored for
\* the values just sent, up to MaxPending creates in flight.
Submit ==
    /\ IF mixDataSchema(form) # {}
       THEN /\ submitCount < MaxSubmits
            /\ submitCount' = submitCount + 1
            /\ UNCHANGED <<form, attemptedSubmit, notification, pending, mutationId>>
       ELSE /\ \/ mutationId < MaxCreates
               \/ /\ pending # <<>>
                  /\ Len(pending) < MaxPending
                  /\ mutationId < MaxCreates + MaxPending - 1
                  /\ pending[Len(pending)] = transformedData(form)
            /\ attemptedSubmit' = TRUE
            /\ pending' = Append(pending, transformedData(form))
            /\ mutationId' = mutationId + 1
            /\ UNCHANGED <<form, notification, submitCount>>
    /\ UNCHANGED <<store, clock, valVars, aggVars, stoVars, uiVars>>

\* The create mutation's timer fires: the record is built and the list with
\* the record in front is written; the mutation resolves, onSubmit resumes,
\* shows success and resets the form, and handleSubmit counts the submit.
CreateSettles ==
    /\ pending # <<>>
    /\ \E now \in {clock, clock + 1}, throws \in BOOLEAN :
          /\ clock' = now
          /\ store' = setStoredData(store, createdData(store, Head(pending), now), throws)
          /\ op' = Settled("create", now, <<Head(pending)>>, now, throws, "success",
                           <<newMixData(Head(pending), now)>>)
    /\ pending' = Tail(pending)
    /\ notification' = "success"
    /\ form' = defaultValues
    /\ attemptedSubmit' = FALSE
    /\ submitCount' = 1
    /\ UNCHANGED <<mutationId, query, valVars, aggVars, uiVars>>

AppIdle ==
    /\ form = defaultValues
    /\ attemptedSubmit = FALSE
    /\ notification = "none"
    /\ pending = <<>>
    /\ store = StorageMissing
    /\ clock = LoadTime
    /\ submitCount = 0
    /\ mutationId = 0

\* The edit modal's useForm has no defaultValues: before the first reset
\* every value is undefined.
NoMixType == "undefined"

NoFormValues ==
    [mixType |-> NoMixType, cement |-> Undefined, aggregate |-> Undefined,
     sand |-> Undefined, water |-> Undefined, plastizer |-> Undefined, birta |-> Undefined,
     colorType |-> "", colorQuantity |-> Undefined, products |-> NoProducts]

NoExport == [exported |-> FALSE, header |-> <<>>, rows |-> <<>>]

UiIdle ==
    /\ inflight = <<>>
    /\ currentPage = 1
    /\ filters = [mixType |-> ""]
    /\ csv = NoExport
    /\ editingMix = <<>>
    /\ editForm = NoFormValues
    /\ editAttempted = FALSE
    /\ editNotification = "none"
    /\ closeTimers = 0

(***************************************************************************)
(* Specifications.                                                         *)
(***************************************************************************)
Init == ValIdle /\ AggIdle /\ AppIdle /\ StoIdle /\ UiIdle

Next ==
    \/ \E t \in MixTypes : ChooseMixType(t)
    \/ \E c \in ColorChoices : ChooseColor(c)
    \/ \E v \in BirtaInputs : EnterBirta(v)
    \/ \E type \in {""} \cup boardsTiirTypes : addProduct(type)
    \/ \E i \in 1..MaxProducts + 1, t \in InterlockChoices : SelectInterlockType(i, t)
    \/ \E i \in 1..MaxProducts + 1, v \in QuantityInputs : EnterQuantity(i, v)
    \/ \E i \in 1..MaxProducts + 1 : remove(i)
    \/ Submit
    \/ CreateSettles

Spec == Init /\ [][Next]_vars

ValidatorInit ==
    /\ cand \in Candidates
    /\ vphase = "input"
    /\ vissues = {}
    /\ vout = cand
    /\ AggIdle
    /\ AppIdle
    /\ StoIdle
    /\ UiIdle

ValidatorNext == Validate \/ Transform

ValidatorSpec == ValidatorInit /\ [][ValidatorNext]_vars

SummaryInit ==
    /\ \E n \in 0..MaxRecords :
          \E s \in [1..n -> SummaryRecordSamples] : data = Collection(s)
    /\ aphase = "input"
    /\ totals = NoTotals
    /\ colorGroupedData = NoGrouped
    /\ productGroupedData = NoGrouped
    /\ ValIdle
    /\ AppIdle
    /\ StoIdle
    /\ UiIdle

SummaryNext == RenderTotals \/ RenderColorTotals \/ RenderProductTotals

SummarySpec == SummaryInit /\ [][SummaryNext]_vars

StoreInit == Init

StoreNext ==
    \/ \E formData \in StoreInputs : CreateMixData(formData)
    \/ \E id \in KnownIds, formData \in StoreInputs : UpdateMixData(id, formData)
    \/ \E id \in KnownIds : DeleteMixData(id)
    \/ \E page \in PageSamples, pageSize \in PageSizeSamples, mixTypeFilter \in FilterSamples :
          QueryMixData(page, pageSize, mixTypeFilter)

StoreSpec == StoreInit /\ [][StoreNext]_vars

\* The store hooks over a storage that holds nothing usable.
FallbackInit ==
    /\ store \in {StorageMissing, StorageUnparseable, StorageUnreadable}
    /\ form = defaultValues
    /\ attemptedSubmit = FALSE
    /\ notification = "none"
    /\ pending = <<>>
    /\ clock = LoadTime
    /\ submitCount = 0
    /\ mutationId = 0
    /\ ValIdle
    /\ AggIdle
    /\ StoIdle
    /\ UiIdle

FallbackSpec == FallbackInit /\ [][StoreNext]_vars

(***************************************************************************)
(* Mutations in flight.  A caller starts a mutation (mutateAsync); the      *)
(* mutationFn waits for its timer (500 ms for create and update, 300 ms for *)
(* delete) and then reads, changes and writes the list without yielding.    *)
(***************************************************************************)
Started(name, id, formData, origin) ==
    [name |-> name, id |-> id, formData |-> formData, origin |-> origin]

delay(m) == IF m.name = "delete" THEN 300 ELSE 500

\* Timers fire in the order of their due times: a mutation started later
\* settles first only when its delay is shorter.
canSettle(i) == \A j \in 1..(i - 1) : delay(inflight[j]) > delay(inflight[i])

\* The list the mutationFn of m hands to setStoredData.
written(st, m, now) ==
    CASE m.name = "create" -> createdData(st, m.formData[1], now)
      [] m.name = "update" -> updatedData(st, m.id, m.formData[1], now)
      [] OTHER -> deletedData(st, m.id)

\* The value the mutationFn of m returns.
returned(st, m, now) ==
    CASE m.name = "create" -> <<newMixData(m.formData[1], now)>>
      [] m.name = "update" -> find(updatedData(st, m.id, m.formData[1], now), m.id)
      [] OTHER -> <<>>

\* onSuccess: invalidateQueries(['mixData']) makes the mounted query fetch again.
refetch(st) ==
    IF query = NoQuery THEN NoQuery
    ELSE [page |-> query.page, pageSize |-> query.pageSize, mixType |-> query.mixType] @@
         useMixData(st, query.page, query.pageSize, query.mixType)

\* The timer of the mutation at position i fires and the mutation settles;
\* the caller resumes: the edit modal shows success and arms the timer that
\* closes it, the table and a direct caller do nothing more.
Settle(i) ==
    /\ i \in 1..Len(inflight)
    /\ canSettle(i)
    /\ LET m == inflight[i]
       IN /\ \E now \in {clock, clock + 1}, throws \in BOOLEAN :
                /\ clock' = now
                /\ store' = setStoredData(store, written(store, m, now), throws)
                /\ op' = Settled(m.name, IF m.name = "create" THEN now ELSE m.id,
                                 m.formData, now, throws, "success",
                                 returned(store, m, now))
          /\ IF m.origin = "edit"
             THEN /\ editNotification' = "success"
                  /\ closeTimers' = closeTimers + 1
             ELSE UNCHANGED <<editNotification, closeTimers>>
    /\ inflight' = RemoveAt(inflight, i)
    /\ query' = refetch(store')
    /\ UNCHANGED <<mutationId, form, attemptedSubmit, notification, pending, submitCount,
                   tableVars, editForm, editAttempted, valVars, aggVars>>

(***************************************************************************)
(* The store hooks with their delays (OverlapSpec): callers start          *)
(* mutations while others are still waiting for their timers.              *)
(***************************************************************************)
StartCreate(formData) ==
    /\ mutationId < MaxOps
    /\ inflight' = Append(inflight, Started("create", 0, <<formData>>, "hook"))
    /\ mutationId' = mutationId + 1
    /\ UNCHANGED <<tableVars, editVars, form, attemptedSubmit, notification, pending, store,
                   clock, submitCount, stoVars, valVars, aggVars>>

StartUpdate(id, formData) ==
    /\ mutationId < MaxOps
    /\ inflight' = Append(inflight, Started("update", id, <<formData>>, "hook"))
    /\ mutationId' = mutationId + 1
    /\ UNCHANGED <<tableVars, editVars, form, attemptedSubmit, notification, pending, store,
                   clock, submitCount, stoVars, valVars, aggVars>>

StartDelete(id) ==
    /\ mutationId < MaxOps
    /\ inflight' = Append(inflight, Started("delete", id, <<>>, "hook"))
    /\ mutationId' = mutationId + 1
    /\ UNCHANGED <<tableVars, editVars, form, attemptedSubmit, notification, pending, store,
                   clock, submitCount, stoVars, valVars, aggVars>>

OverlapNext ==
    \/ \E formData \in StoreInputs : StartCreate(formData)
    \/ \E id \in KnownIds, formData \in StoreInputs : StartUpdate(id, formData)
    \/ \E id \in KnownIds : StartDelete(id)
    \/ \E i \in 1..MaxOps : Settle(i)

OverlapSpec == Init /\ [][OverlapNext]_vars

(***************************************************************************)
(* The edit modal (EditMixModal) behind the Edit button of a table row.     *)
(***************************************************************************)
MaxEdits == 1

TablePageSize == 25

\* The page the table shows: useMixData(page, 25, filters).
listed == useMixData(store, currentPage, TablePageSize, filters.mixType)

\* Mutant of initialFormData: the mix type is the form's default one.
initialFormData_defaultMixType(mixData) ==
    [mixType |-> "interlock",
     cement |-> mixData.measurements.cement,
     aggregate |-> mixData.measurements.aggregate,
     sand |-> mixData.measurements.sand,
     water |-> mixData.measurements.water,
     plastizer |-> mixData.measurements.plastizer,
     birta |-> Undefined,
     colorType |-> IF mixData.measurements.colorType = "No Color"
                   THEN "" ELSE mixData.measurements.colorType,
     colorQuantity |-> mixData.measurements.colorQuantity,
     products |-> IF mixData.measurements.products.k = "array"
                  THEN mixData.measurements.products ELSE Arr(<<>>)]

\* formData of the initialisation effect: what reset() receives.
initialFormData(mixData) ==
    [mixType |-> mixData.mixType,
     cement |-> mixData.measurements.cement,
     aggregate |-> mixData.measurements.aggregate,
     sand |-> mixData.measurements.sand,
     water |-> mixData.measurements.water,
     plastizer |-> mixData.measurements.plastizer,
     birta |-> IF mixData.mixType = "boards/tiir"
                  /\ mixData.measurements.birta.k # "undefined"
               THEN mixData.measurements.birta ELSE Undefined,
     colorType |-> IF mixData.measurements.colorType = "No Color"
                   THEN "" ELSE mixData.measurements.colorType,
     colorQuantity |-> mixData.measurements.colorQuantity,
     products |-> IF mixData.measurements.products.k = "array"
                  THEN mixData.measurements.products ELSE Arr(<<>>)]

\* The effect keyed on [mixType, setValue, mixData], with the mixType the
\* render read through watch('mixType'); the set of form values it can leave.
\* setValue('colorType', '') always lands.  setValue('products', []) runs
\* right after reset(), which drops the registered field names: whether the
\* field array then shows the empty list or re-registers its rows from the
\* values handed to reset() depends on the react-hook-form build.
resetEffect(f, mixType, mixData) ==
    IF mixType # mixData.mixType
    THEN {[f EXCEPT !.colorType = "", !.products = Arr(<<>>)], [f EXCEPT !.colorType = ""]}
    ELSE {f}

\* The Edit button of a listed row: setEditingMix(mix).  The modal renders
\* with the mixType its form held before; then its effects run in order:
\* the initialisation effect resets the form to formData, and the effect
\* keyed on mixType compares the mixType of that render with the record's.
\* While the modal is open its overlay covers the table.
OpenEdit(mix) ==
    /\ editingMix = <<>>
    /\ mix \in Range(listed.data)
    /\ editingMix' = <<mix>>
    /\ editForm' \in resetEffect(initialFormData(mix), editForm.mixType, mix)
    /\ editAttempted' = FALSE
    /\ editNotification' = "none"
    /\ UNCHANGED <<closeTimers, inflight, currentPage, filters, csv, appVars, stoVars,
                   valVars, aggVars>>

\* Cancel and the X button: onClose.
CloseEdit ==
    /\ editingMix # <<>>
    /\ editingMix' = <<>>
    /\ UNCHANGED <<editVars, inflight, currentPage, filters, csv, appVars, stoVars,
                   valVars, aggVars>>

\* The timer armed after a successful update: setNotification(null), onClose().
CloseTimerFires ==
    /\ closeTimers > 0
    /\ closeTimers' = closeTimers - 1
    /\ editNotification' = "none"
    /\ editingMix' = <<>>
    /\ UNCHANGED <<editForm, editAttempted, inflight, currentPage, filters, csv, appVars,
                   stoVars, valVars, aggVars>>

\* The color select of the modal.
EditChooseColor(c) ==
    /\ editingMix # <<>>
    /\ editForm' = [editForm EXCEPT !.colorType = c]
    /\ UNCHANGED <<editAttempted, editNotification, closeTimers, inflight, tableVars,
                   appVars, stoVars, valVars, aggVars>>

\* addProduct of the modal.
EditAddProduct(type) ==
    /\ editingMix # <<>>
    /\ Len(editForm.products.items) < MaxProducts
    /\ IF editForm.mixType = "interlock"
       THEN /\ type = ""
            /\ getAvailableInterlockTypes(editForm) # {}
            /\ editForm' = [editForm EXCEPT !.products =
                               Arr(Append(@.items, [type |-> "", quantity |-> Num(0)]))]
       ELSE /\ type \in boardsTiirTypes
            /\ ~isBoardsTiirTypeSelected(editForm, type)
            /\ editForm' = [editForm EXCEPT !.products =
                               Arr(Append(@.items, [type |-> type, quantity |-> Num(0)]))]
    /\ UNCHANGED <<editAttempted, editNotification, closeTimers, inflight, tableVars,
                   appVars, stoVars, valVars, aggVars>>

\* The interlock type select of product i of the modal.
EditSelectInterlockType(i, t) ==
    /\ editingMix # <<>>
    /\ editForm.mixType = "interlock"
    /\ i \in 1..Len(editForm.products.items)
    /\ t = "" \/ \A j \in 1..Len(editForm.products.items) :
                    j # i => editForm.products.items[j].type # t
    /\ editForm' = [editForm EXCEPT !.products = Arr([@.items EXCEPT ![i].type = t])]
    /\ UNCHANGED <<editAttempted, editNotification, closeTimers, inflight, tableVars,
                   appVars, stoVars, valVars, aggVars>>

\* The remove button of product i of the modal.
EditRemove(i) ==
    /\ editingMix # <<>>
    /\ i \in 1..Len(editForm.products.items)
    /\ editForm' = [editForm EXCEPT !.products = Arr(RemoveAt(@.items, i))]
    /\ UNCHANGED <<editAttempted, editNotification, closeTimers, inflight, tableVars,
                   appVars, stoVars, valVars, aggVars>>

\* "Update Mix Data", disabled while the update is pending: handleSubmit calls
\* onSubmit only with data the schema accepted; onSubmit sets attemptedSubmit
\* and starts the update of mixData.id with transformedData.
EditSubmit ==
    /\ editingMix # <<>>
    /\ \A i \in 1..Len(inflight) : inflight[i].origin # "edit"
    /\ mixDataSchema(editForm) = {}
    /\ mutationId < MaxEdits
    /\ editAttempted' = TRUE
    /\ inflight' = Append(inflight, Started("update", editingMix[1].id,
                                            <<transformedData(editForm)>>, "edit"))
    /\ mutationId' = mutationId + 1
    /\ UNCHANGED <<editForm, editNotification, closeTimers, tableVars, form, attemptedSubmit,
                   notification, pending, store, clock, submitCount, stoVars, valVars, aggVars>>

\* What the user picks in the modal.
EditColorChoices == {""}
EditInterlockChoices == {"Garden"}

EditNext ==
    \/ \E mix \in Range(listed.data) : OpenEdit(mix)
    \/ CloseEdit
    \/ CloseTimerFires
    \/ \E c \in EditColorChoices : EditChooseColor(c)
    \/ \E type \in {""} \cup boardsTiirTypes : EditAddProduct(type)
    \/ \E i \in 1..MaxProducts + 1, t \in EditInterlockChoices : EditSelectInterlockType(i, t)
    \/ \E i \in 1..MaxProducts + 1 : EditRemove(i)
    \/ EditSubmit
    \/ \E i \in 1..MaxEdits : Settle(i)

EditSpec == Init /\ [][EditNext]_vars

(***************************************************************************)
(* The data table (DataTable): page and filter state over useMixData,       *)
(* delete, and the CSV export of the listed page.                           *)
(***************************************************************************)
MaxRows == 25
MaxDeletes == 1

\* What the entry form sent for the records the table starts with: the
\* first one a boards/tiir mix with birta 0, the others interlock mixes.
TableInput(i) ==
    IF i = 1
    THEN [mixType |-> "boards/tiir", cement |-> Num(30000), aggregate |-> Num(100000),
          sand |-> Num(70000), water |-> Num(15000), plastizer |-> Num(400),
          birta |-> Num(0), colorType |-> "White", colorQuantity |-> Num(100),
          products |-> Arr(<<Product("Boards", 5)>>)]
    ELSE [mixType |-> "interlock", cement |-> Num(30000), aggregate |-> Num(100000),
          sand |-> Num(70000), water |-> Num(15000), plastizer |-> Num(400),
          birta |-> Undefined, colorType |-> "", colorQuantity |-> Num(0),
          products |-> Arr(<<Product("Garden", 10)>>)]

\* The storage after n creates on top of the demo records, one per
\* millisecond, each of data the schema accepted.
\* (Every create puts its record in front of the list it read.)
TableStore(n) ==
    IF n = 0 THEN StorageMissing
    ELSE StorageList(jsonRoundTrip(
             [i \in 1..n |-> newMixData(transformedData(TableInput(n + 1 - i)),
                                        LoadTime + n + 1 - i)] \o mockMixData))

\* The query of the table for a page and a filter, settled.
fetch(st, p, f) ==
    [page |-> p, pageSize |-> TablePageSize, mixType |-> f.mixType] @@
    useMixData(st, p, TablePageSize, f.mixType)

\* Math.max(a, b)
max(a, b) == IF a >= b THEN a ELSE b

\* data?.totalPages || 1
totalPagesOr1 == IF query.totalPages = 0 THEN 1 ELSE query.totalPages

\* Previous, disabled on page 1: setPage(Math.max(1, page - 1)).
PreviousPage ==
    /\ currentPage # 1
    /\ currentPage' = max(1, currentPage - 1)
    /\ query' = fetch(store, currentPage', filters)
    /\ UNCHANGED <<op, filters, csv, editingMix, inflight, editVars, appVars, valVars, aggVars>>

\* Next, disabled when page >= (data?.totalPages || 1): setPage(page + 1).
NextPage ==
    /\ ~(currentPage >= totalPagesOr1)
    /\ currentPage' = currentPage + 1
    /\ query' = fetch(store, currentPage', filters)
    /\ UNCHANGED <<op, filters, csv, editingMix, inflight, editVars, appVars, valVars, aggVars>>

\* The mix type select: setFilters({ ...filters, mixType: e.target.value }).
ChangeFilter(t) ==
    /\ filters' = [filters EXCEPT !.mixType = t]
    /\ query' = fetch(store, currentPage, filters')
    /\ UNCHANGED <<op, currentPage, csv, editingMix, inflight, editVars, appVars, valVars, aggVars>>

\* The delete button of a listed row, confirmed: deleteMixData.mutateAsync(id).
handleDelete(id) ==
    /\ mutationId < MaxDeletes
    /\ \E i \in 1..Len(query.data) : query.data[i].id = id
    /\ inflight' = Append(inflight, Started("delete", id, <<>>, "table"))
    /\ mutationId' = mutationId + 1
    /\ UNCHANGED <<tableVars, editVars, form, attemptedSubmit, notification, pending, store,
                   clock, submitCount, stoVars, valVars, aggVars>>

\* A cell of the exported file: the digits of a number, the locale's
\* rendering of a time, a text, or nothing.
Digits(n) == [k |-> "digits", n |-> n, s |-> ""]
LocaleString(t) == [k |-> "localeString", n |-> t, s |-> ""]
Text(str) == [k |-> "text", n |-> 0, s |-> str]
Blank == Text("")

\* Array.prototype.join on a number-typed element: null and undefined give
\* the empty string, NaN gives "NaN".
joined(v) ==
    CASE v.k = "number" -> Digits(v.n)
      [] v.k = "nan" -> Text("NaN")
      [] OTHER -> Blank

\* v || '' followed by join: every falsy value (undefined, null, NaN and 0)
\* gives the empty string.
orBlank(v) == IF v.k = "number" /\ v.n # 0 THEN Digits(v.n) ELSE Blank

csvHeader ==
    <<"ID", "Timestamp", "Mix Type", "Color Type", "Color Quantity", "Cement",
      "Aggregate", "Sand", "Water", "Plastizer", "Birta">>

\* One row of csvContent.
csvRow(mix) ==
    <<Digits(mix.id), LocaleString(mix.timestamp), Text(mix.mixType),
      Text(mix.measurements.colorType), joined(mix.measurements.colorQuantity),
      joined(mix.measurements.cement), joined(mix.measurements.aggregate),
      joined(mix.measurements.sand), joined(mix.measurements.water),
      joined(mix.measurements.plastizer), orBlank(mix.measurements.birta)>>

\* Export CSV: the header and one row per record of data.data.
handleExport ==
    /\ csv' = [exported |-> TRUE, header |-> csvHeader,
               rows |-> [i \in 1..Len(query.data) |-> csvRow(query.data[i])]]
    /\ UNCHANGED <<currentPage, filters, editingMix, inflight, editVars, appVars, stoVars,
                   valVars, aggVars>>

TableInit ==
    /\ \E n \in {1, MaxRows} :
          /\ store = TableStore(n)
          /\ clock = LoadTime + n
    /\ query = fetch(store, 1, [mixType |-> ""])
    /\ op = NoOp
    /\ form = defaultValues
    /\ attemptedSubmit = FALSE
    /\ notification = "none"
    /\ pending = <<>>
    /\ submitCount = 0
    /\ mutationId = 0
    /\ ValIdle
    /\ AggIdle
    /\ UiIdle

TableNext ==
    \/ PreviousPage
    \/ NextPage
    \/ \E t \in FilterSamples : ChangeFilter(t)
    \/ \E id \in {query.data[i].id : i \in 1..Len(query.data)} : handleDelete(id)
    \/ handleExport
    \/ \E i \in 1..MaxDeletes : Settle(i)

TableSpec == TableInit /\ [][TableNext]_vars

(***************************************************************************)
(* Properties of the validator (ValidatorSpec).                            *)
(***************************************************************************)
Validated == vphase \in {"validated", "transformed"}

HasIssueOn(field) == \E iss \in vissues : iss.field = field

BirtaAbsent == cand.birta.k \in {"undefined", "null"}

CandItems == cand.products.items

\* The vocabulary the data model ties to each mix type.
Vocabulary(mixType) == IF mixType = "interlock" THEN interlockTypes ELSE boardsTiirTypes

\* C1: a boards/tiir candidate whose birta is undefined or null gets a
\* violation on birta, whatever its other fields hold.
C1_BirtaRequired ==
    (Validated /\ cand.mixType = "boards/tiir" /\ BirtaAbsent) => HasIssueOn("birta")

\* C2: an interlock candidate gets no violation on birta, whether birta is
\* absent or present and whatever a present birta holds.
C2_InterlockIgnoresBirta ==
    (Validated /\ cand.mixType = "interlock") => ~HasIssueOn("birta")

\* C3: a candidate, of either mix type, with two product entries of the same
\* type gets a violation on products, wherever in the list the two entries are.
C3_DuplicateTypesRejected ==
    (Validated /\ cand.products.k = "array"
       /\ \E i, j \in 1..Len(CandItems) : i # j /\ CandItems[i].type = CandItems[j].type)
    => HasIssueOn("products")

\* C4: a candidate with a product type outside the vocabulary of its mix type
\* gets a violation on products, and the vocabulary rule reports nothing when
\* every product type is in the vocabulary.
C4_VocabularyEnforced ==
    Validated =>
        /\ (\E i \in 1..Len(CandItems) : CandItems[i].type \notin Vocabulary(cand.mixType))
              => HasIssueOn("products")
        /\ (\A i \in 1..Len(CandItems) : CandItems[i].type \in Vocabulary(cand.mixType))
              => ~\E iss \in vissues :
                    iss.message = "Invalid product type for selected mix type"

\* C5: an empty colorType gets no violation on colorType; the transformedData
\* built from accepted data holds 'No Color' where the colorType was empty and
\* every other field as it was; transforming it again changes nothing.
C5_EmptyColorAccepted_Normalized ==
    /\ (Validated /\ cand.colorType = "") => ~HasIssueOn("colorType")
    /\ vphase = "transformed" =>
          /\ vout.colorType = (IF cand.colorType = "" THEN "No Color" ELSE cand.colorType)
          /\ \A f \in DOMAIN cand \ {"colorType"} : vout[f] = cand[f]
          /\ DOMAIN vout = DOMAIN cand
          /\ transformedData(vout) = vout

C5_Witness ==
    /\ vphase = "transformed"
    /\ cand.colorType = ""
    /\ vout.colorType = "No Color"
    /\ cand.mixType = "boards/tiir"
    /\ vout.birta = Num(50)

Lookup(m, key) == IF key \in DOMAIN m THEN m[key] ELSE 0

Lookup3(g, color, mixType, type) ==
    IF color \in DOMAIN g
    THEN IF mixType \in DOMAIN g[color] THEN Lookup(g[color][mixType], type) ELSE 0
    ELSE 0

Lookup2(g, type, color) == IF type \in DOMAIN g THEN Lookup(g[type], color) ELSE 0

\* Every product entry of d: <<i, j>> is entry j of record i.
Entries(d) ==
    UNION { { <<i, j>> : j \in 1..Len(d[i].measurements.products.items) } : i \in 1..Len(d) }

EntryType(d, e) == d[e[1]].measurements.products.items[e[2]].type
EntryQuantity(d, e) == d[e[1]].measurements.products.items[e[2]].quantity.n

\* The color a record is counted under: 'No Color' for an empty colorType.
CountedColor(mix) ==
    IF mix.measurements.colorType = "" THEN "No Color" ELSE mix.measurements.colorType

RECURSIVE SumEntries(_, _)
SumEntries(d, es) ==
    IF es = {} THEN 0
    ELSE LET e == CHOOSE x \in es : TRUE
         IN EntryQuantity(d, e) + SumEntries(d, es \ {e})

AllTypes == interlockTypes \cup boardsTiirTypes \cup {"Paving", ""}
AllColors == colorOptions \cup {"No Color", ""}

SumByMixType(d, mixType, type) ==
    SumEntries(d, {e \in Entries(d) : d[e[1]].mixType = mixType /\ EntryType(d, e) = type})

SumByColor(d, color, mixType, type) ==
    SumEntries(d, {e \in Entries(d) : /\ CountedColor(d[e[1]]) = color
                                      /\ d[e[1]].mixType = mixType
                                      /\ EntryType(d, e) = type})

SumByProductType(d, type, color) ==
    SumEntries(d, {e \in Entries(d) : EntryType(d, e) = type /\ CountedColor(d[e[1]]) = color})

SumAll(d) == SumEntries(d, Entries(d))

TypesOf(d, mixType) == {EntryType(d, e) : e \in {x \in Entries(d) : d[x[1]].mixType = mixType}}

\* C8: calculateTotals maps each mix type and product type to the sum of the
\* quantities of that type in records of that mix type, its keys are the types
\* that occur, the grand total is the sum of all quantities, and the empty
\* collection gives empty mappings and a grand total of 0.
C8_TotalsByMixType ==
    aphase \in {"totals", "color", "product"} =>
        /\ ~totals.threw
        /\ \A type \in AllTypes :
              /\ Lookup(totals.interlockTotals, type) = SumByMixType(data, "interlock", type)
              /\ Lookup(totals.boardsTiirTotals, type) = SumByMixType(data, "boards/tiir", type)
        /\ DOMAIN totals.interlockTotals = TypesOf(data, "interlock")
        /\ DOMAIN totals.boardsTiirTotals = TypesOf(data, "boards/tiir")
        /\ totalsGrandTotal(totals) = SumAll(data)
        /\ data = <<>> =>
              /\ totals.interlockTotals = EmptyMap
              /\ totals.boardsTiirTotals = EmptyMap
              /\ totalsGrandTotal(totals) = 0

C8_Witness ==
    /\ aphase = "totals"
    /\ Len(data) = 2
    /\ totals.interlockTotals = ("Block Interlock" :> 100) @@ ("Garden" :> 50)
    /\ totals.boardsTiirTotals = ("Tiir" :> 200) @@ ("Boards" :> 150)
    /\ totalsGrandTotal(totals) = 500

\* C9: calculateColorTotals maps each color, mix type and product type to the
\* sum of the quantities of that type in records of that color and mix type,
\* a record with an empty colorType being counted under 'No Color'.
C9_TotalsByColor ==
    aphase \in {"color", "product"} =>
        /\ ~colorGroupedData.threw
        /\ \A color \in AllColors, mixType \in MixTypes, type \in AllTypes :
              Lookup3(colorGroupedData.groupedData, color, mixType, type)
                 = SumByColor(data, color, mixType, type)
        /\ DOMAIN colorGroupedData.groupedData = {CountedColor(data[i]) : i \in 1..Len(data)}

C9_Witness ==
    /\ aphase = "color"
    /\ Len(data) = 2
    /\ \A i \in 1..2 : data[i].measurements.colorType = "Red" /\ data[i].mixType = "interlock"
    /\ data[1].measurements.products = Arr(<<Product("Garden", 10)>>)
    /\ data[2].measurements.products = Arr(<<Product("Garden", 5)>>)
    /\ colorGroupedData.groupedData["Red"]["interlock"]["Garden"] = 15

\* The records of d that carry a products list.
HasProductsList(mix) == mix.measurements.products.k = "array"

\* C10: a record whose products list is omitted raises no error in any of the
\* three aggregations, and every bucket and grand total equals the one
\* computed over the collection without such records.
C10_OmittedProductsCountZero ==
    aphase = "product" =>
        LET kept == SelectSeq(data, HasProductsList)
            t == calculateTotals(kept)
            c == calculateColorTotals(kept)
            p == calculateProductTotals(kept)
        IN /\ ~totals.threw /\ ~colorGroupedData.threw /\ ~productGroupedData.threw
           /\ \A type \in AllTypes :
                 /\ Lookup(totals.interlockTotals, type) = Lookup(t.interlockTotals, type)
                 /\ Lookup(totals.boardsTiirTotals, type) = Lookup(t.boardsTiirTotals, type)
           /\ \A color \in AllColors, mixType \in MixTypes, type \in AllTypes :
                 Lookup3(colorGroupedData.groupedData, color, mixType, type)
                    = Lookup3(c.groupedData, color, mixType, type)
           /\ \A type \in AllTypes, color \in AllColors :
                 Lookup2(productGroupedData.groupedData, type, color)
                    = Lookup2(p.groupedData, type, color)
           /\ totalsGrandTotal(totals) = totalsGrandTotal(t)
           /\ getGrandTotal("color", colorGroupedData.groupedData, productGroupedData.groupedData)
                 = getGrandTotal("color", c.groupedData, p.groupedData)
           /\ getGrandTotal("product", colorGroupedData.groupedData, productGroupedData.groupedData)
                 = getGrandTotal("product", c.groupedData, p.groupedData)
           /\ totalsGrandTotal(totals) = SumAll(data)

C10_Witness ==
    /\ aphase = "product"
    /\ Len(data) = 2
    /\ data[1].measurements.products = NoProducts
    /\ data[2].measurements.products = Arr(<<Product("Garden", 10)>>)
    /\ totalsGrandTotal(totals) = 10
    /\ getGrandTotal("color", colorGroupedData.groupedData, productGroupedData.groupedData) = 10
    /\ getGrandTotal("product", colorGroupedData.groupedData, productGroupedData.groupedData) = 10

\* C27: the by-product-type entry of a product type and a color is the sum
\* over the mix types of the by-color entries of that color and type, and the
\* grand totals of the by-color, the by-product-type and the by-mix-type view
\* all equal the sum of all product quantities.
C27_ViewsAgree ==
    aphase = "product" =>
        LET byColor == colorGroupedData.groupedData
            byProduct == productGroupedData.groupedData
            all == SumAll(data)
        IN /\ \A type \in AllTypes, color \in AllColors :
                 Lookup2(byProduct, type, color)
                    = Lookup3(byColor, color, "interlock", type)
                      + Lookup3(byColor, color, "boards/tiir", type)
           /\ DOMAIN byProduct \subseteq AllTypes
           /\ \A type \in DOMAIN byProduct : DOMAIN byProduct[type] \subseteq AllColors
           /\ getGrandTotal("color", byColor, byProduct) = all
           /\ getGrandTotal("product", byColor, byProduct) = all
           /\ totalsGrandTotal(totals) = all

\* Two Red interlock records with Garden: the by-product-type view holds 15
\* for Garden in Red, and so does the by-color view.
C27_Witness ==
    /\ aphase = "product"
    /\ Len(data) = 2
    /\ \A i \in 1..2 : data[i].measurements.colorType = "Red" /\ data[i].mixType = "interlock"
    /\ data[1].measurements.products = Arr(<<Product("Garden", 10)>>)
    /\ data[2].measurements.products = Arr(<<Product("Garden", 5)>>)
    /\ productGroupedData.groupedData["Garden"]["Red"] = 15

(***************************************************************************)
(* Properties of the entry form in front of the store (Spec).              *)
(***************************************************************************)
StoredRecords == getStoredData(store)

\* C6: every stored record carries birta if and only if its mix type is
\* boards/tiir; in particular no stored interlock record has a birta value,
\* whatever was entered and switched in the entry form before the submit.
C6_BirtaIffBoardsTiir ==
    \A i \in 1..Len(StoredRecords) :
        (StoredRecords[i].measurements.birta.k # "undefined")
            <=> (StoredRecords[i].mixType = "boards/tiir")

(***************************************************************************)
(* Properties of the store hooks (StoreSpec).  op is the last settled      *)
(* mutation and store the storage it left behind.                          *)
(***************************************************************************)
Stored == getStoredData(store)

\* The measurement block the caller handed over: every field of formData
\* except mixType.
BlockOf(formData) == [f \in DOMAIN formData \ {"mixType"} |-> formData[f]]

\* Page 1 of the unfiltered list at the default page size.
FirstPage == useMixData(store, 1, 25, "").data

\* C11: after create(normalized accepted input) has reported success, the
\* first record of page 1 of the list is the created one and its measurement
\* fields equal the input's.
C11_CreateListRoundTrip ==
    (op.name = "create" /\ op.status = "success") =>
        /\ FirstPage # <<>>
        /\ FirstPage[1].id = op.id
        /\ FirstPage[1].measurements = BlockOf(op.formData[1])

\* The stored records that pass the optional mix-type filter.
Matches(r, mixTypeFilter) == mixTypeFilter = "" \/ r.mixType = mixTypeFilter

Occurrences(records, r) == Cardinality({i \in 1..Len(records) : records[i] = r})

\* Pages 1..n of the list, one after the other.
RECURSIVE PagesUpTo(_, _, _)
PagesUpTo(n, pageSize, mixTypeFilter) ==
    IF n = 0 THEN <<>>
    ELSE PagesUpTo(n - 1, pageSize, mixTypeFilter)
            \o useMixData(store, n, pageSize, mixTypeFilter).data

CheckedPageSizes == {1, 2, 3, 25}

\* C13: for every page size and filter, count is the number of matching
\* stored records, totalPages is ceil(count / pageSize), every page before the
\* last is full, pages after the last are empty, and pages 1..totalPages put
\* together hold every matching record exactly once, newest timestamp first.
C13_ListPagesPartitionNewestFirst ==
    \A pageSize \in CheckedPageSizes, mixTypeFilter \in FilterSamples :
        LET first == useMixData(store, 1, pageSize, mixTypeFilter)
            all == PagesUpTo(first.totalPages, pageSize, mixTypeFilter)
        IN /\ first.count
                 = Cardinality({i \in 1..Len(Stored) : Matches(Stored[i], mixTypeFilter)})
           /\ first.totalPages * pageSize >= first.count
           /\ (first.totalPages - 1) * pageSize < first.count
           /\ Len(all) = first.count
           /\ \A i \in 1..Len(Stored) :
                 Occurrences(all, Stored[i])
                    = IF Matches(Stored[i], mixTypeFilter)
                      THEN Occurrences(Stored, Stored[i]) ELSE 0
           /\ \A i \in 1..(Len(all) - 1) : all[i].timestamp >= all[i + 1].timestamp
           /\ \A page \in 1..(first.totalPages + 1) :
                 LET res == useMixData(store, page, pageSize, mixTypeFilter)
                 IN /\ res.count = first.count /\ res.totalPages = first.totalPages
                    /\ Len(res.data) = IF page < first.totalPages THEN pageSize
                                       ELSE IF page = first.totalPages
                                            THEN first.count - (page - 1) * pageSize
                                            ELSE 0
                    /\ \A j \in 1..Len(res.data) :
                          res.data[j] = all[(page - 1) * pageSize + j]

C13_Witness ==
    /\ query.page = 2 /\ query.pageSize = 2 /\ query.mixType = "interlock"
    /\ query.count = 3 /\ query.totalPages = 2
    /\ Len(query.data) = 1
    /\ query.data[1] = mockMixData[1]
    /\ useMixData(store, 2, 2, "interlock").data = query.data

\* C14: no two stored records share an id, whatever creates, updates and
\* deletes have settled, so an update or delete by id reaches at most one record.
C14_IdsUnique ==
    \A i, j \in 1..Len(Stored) : i # j => Stored[i].id # Stored[j].id

\* A step in which a mutation of the given kind settled.
Settles(name) == mutationId' = mutationId + 1 /\ op'.name = name

StoredAfter == getStoredData(store')

\* C15: an update keeps the number and the positions of the stored records,
\* keeps id, timestamp and createdBy of every record, the updated one
\* included, and leaves every record with another id as it was.
C15_UpdateFrame ==
    [][Settles("update") =>
          /\ Len(StoredAfter) = Len(Stored)
          /\ \A i \in 1..Len(Stored) :
                /\ StoredAfter[i].id = Stored[i].id
                /\ StoredAfter[i].timestamp = Stored[i].timestamp
                /\ StoredAfter[i].createdBy = Stored[i].createdBy
                /\ Stored[i].id # op'.id => StoredAfter[i] = Stored[i]]_vars

C15_Witness ==
    /\ op.name = "update" /\ op.id = 1 /\ ~op.threw /\ op.now = LoadTime + 1
    /\ Len(Stored) = 2
    /\ Stored[1].id = 1 /\ Stored[1].timestamp = LoadTime /\ Stored[1].createdBy = "demo-user"
    /\ Stored[1].mixType = "boards/tiir"
    /\ Stored[1].measurements # mockMixData[1].measurements
    /\ Stored[2] = mockMixData[2]

\* C16: after an update every stored record with the id carries exactly the
\* measurement block of the fields handed over (a field the fields leave out
\* is left out of the record), and its lastModified is the time of the update,
\* not earlier than it was.
C16_UpdateReplacesBlock ==
    [][Settles("update") =>
          \A i \in 1..Len(Stored) :
             Stored[i].id = op'.id =>
                /\ StoredAfter[i].measurements = BlockOf(op'.formData[1])
                /\ StoredAfter[i].lastModified = op'.now
                /\ StoredAfter[i].lastModified >= Stored[i].lastModified]_vars

\* C17: after a delete that reported success no stored record, and no list
\* result, carries the deleted id (a demo record does not come back, also
\* when the list becomes empty), and every record with another id is where
\* and what it was.
C17_DeleteRemoves ==
    [][(Settles("delete") /\ op'.status = "success") =>
          /\ \A i \in 1..Len(StoredAfter) : StoredAfter[i].id # op'.id
          /\ \A i \in 1..Len(useMixData(store', 1, 25, "").data) :
                useMixData(store', 1, 25, "").data[i].id # op'.id
          /\ StoredAfter = SelectSeq(Stored, LAMBDA r : r.id # op'.id)]_vars

\* C18: an update whose id no stored record carries is reported to its caller
\* as a failure and changes no stored record.
C18_UpdateUnknownIdFails ==
    [][(Settles("update") /\ \A i \in 1..Len(Stored) : Stored[i].id # op'.id) =>
          (op'.status = "failure" /\ StoredAfter = Stored)]_vars

StoredColors == {"No Color"} \cup colorOptions

\* C20: no stored record has an empty colorType and every stored colorType is
\* 'No Color' or a palette member; the record a mutation builds from accepted
\* fields with an empty colorType carries 'No Color'.
C20_StoredColorNormalized ==
    /\ \A i \in 1..Len(Stored) :
          /\ Stored[i].measurements.colorType # ""
          /\ Stored[i].measurements.colorType \in StoredColors
    /\ \A d \in StoreCandidates :
          (mixDataSchema(d) = {} /\ d.colorType = "") =>
              /\ newMixData(d, clock).measurements.colorType = "No Color"
              /\ updatedItem(mockMixData[1], d, clock).measurements.colorType = "No Color"

C20_Witness ==
    /\ op.name = "update" /\ op.id = 2 /\ ~op.threw
    /\ op.formData[1].colorType = "No Color"
    /\ \E i \in 1..Len(Stored) :
          Stored[i].id = 2 /\ Stored[i].measurements.colorType = "No Color"
    /\ \E i \in 1..Len(Stored) :
          Stored[i].id > 2 /\ Stored[i].measurements.colorType = "No Color"

(***************************************************************************)
(* Properties of the entry form (Spec), continued.                         *)
(***************************************************************************)
\* A step in which handleSubmit ran: a mutation was started, or the submit
\* was counted with nothing sent.
SubmitStep ==
    \/ mutationId' = mutationId + 1
    \/ submitCount' = submitCount + 1 /\ pending' = pending

\* C12: a submit of form values the schema turns down switches the
\* attempted-submit highlighting on (so every offending field and the empty
\* product list are marked) and sends no create to the store.
C12_FailedSubmitMarksFields ==
    [][(SubmitStep /\ mixDataSchema(form) # {}) =>
          (attemptedSubmit' /\ pending' = pending /\ store' = store)]_vars

\* C19: when the storage write of a create throws, the mutation reports the
\* failure, the form shows an error and keeps its values, and the stored
\* records are the ones last written.
C19_WriteFailureReported ==
    [][(pending # <<>> /\ pending' = Tail(pending) /\ op'.threw) =>
          /\ op'.status = "failure"
          /\ notification' = "error"
          /\ form' = form
          /\ getStoredData(store') = getStoredData(store)]_vars

\* C21: in the entry form every change of the mix type leaves the product
\* list empty and the color type '', so nothing chosen under the earlier mix
\* type can be submitted under the new one.
C21_MixTypeChangeResets ==
    [][form'.mixType # form.mixType =>
          (form'.products = Arr(<<>>) /\ form'.colorType = "")]_vars

\* A create sent with products and a color is still pending, and the mix type
\* was changed after it: the form holds no product and no color.
C21_Witness ==
    /\ pending # <<>>
    /\ pending[1].mixType = "interlock"
    /\ pending[1].colorType = "Red"
    /\ pending[1].products.items # <<>>
    /\ form.mixType = "boards/tiir"
    /\ form.products = Arr(<<>>)
    /\ form.colorType = ""

C30_OneCreatePerFilledForm ==
    /\ \A i, j \in 1..Len(pending) : i # j => pending[i] # pending[j]
    /\ \A i, j \in 1..Len(StoredRecords) :
           (i < j /\ StoredRecords[i].id > Len(mockMixData)
                  /\ StoredRecords[j].id > Len(mockMixData)) =>
               \/ StoredRecords[i].mixType # StoredRecords[j].mixType
               \/ StoredRecords[i].measurements # StoredRecords[j].measurements

(***************************************************************************)
(* Properties of the storage fallback (FallbackSpec).                      *)
(***************************************************************************)
DemoMatching(mixTypeFilter) ==
    SelectSeq(mockMixData, LAMBDA r : mixTypeFilter = "" \/ r.mixType = mixTypeFilter)

\* C25: while the storage holds no list (the value is missing, cannot be
\* read or cannot be parsed), every read yields the demo records and no error
\* reaches the caller: a list query counts and returns demo records, a create
\* writes its record in front of them, an update and a delete work on them,
\* and each mutation resolves.
C25_FallbackToDemoRecords ==
    [][store.k # "list" =>
          /\ query' # query =>
                 /\ query'.count = Len(DemoMatching(query'.mixType))
                 /\ Range(query'.data) \subseteq Range(mockMixData)
          /\ mutationId' # mutationId => op'.status = "success"
          /\ (Settles("create") /\ ~op'.threw) =>
                 StoredAfter = <<op'.value[1]>> \o mockMixData
          /\ (Settles("update") /\ ~op'.threw) =>
                 /\ Len(StoredAfter) = Len(mockMixData)
                 /\ \A i \in 1..Len(mockMixData) :
                        /\ StoredAfter[i].id = mockMixData[i].id
                        /\ StoredAfter[i].id # op'.id => StoredAfter[i] = mockMixData[i]
          /\ (Settles("delete") /\ ~op'.threw) =>
                 StoredAfter = SelectSeq(mockMixData, LAMBDA r : r.id # op'.id)]_vars

\* The stored text cannot be parsed; a list query returned the two demo
\* records and a delete settled, its write failing, so the text is still there.
C25_Witness ==
    /\ store = StorageUnparseable
    /\ query.count = Len(mockMixData)
    /\ query.page = 1
    /\ query.data = mockMixData
    /\ op.name = "delete"
    /\ op.status = "success"

(***************************************************************************)
(* Properties of overlapping mutations (OverlapSpec).                      *)
(***************************************************************************)
\* C29: of two mutations started, each one that settles works on the list
\* stored at that moment (the other one's effect included, if it settled
\* first), and the stored list then holds its effect: a create adds its
\* record in front of every stored record, an update replaces its record's
\* block and keeps the others, a delete removes its record and keeps the
\* others.
C29_OverlapKeepsBoth ==
    [][(Len(inflight') < Len(inflight) /\ mutationId > 1) =>
          /\ op'.name = "create" => StoredAfter = <<op'.value[1]>> \o Stored
          /\ op'.name = "update" =>
                 /\ Len(StoredAfter) = Len(Stored)
                 /\ \A i \in 1..Len(Stored) :
                        IF Stored[i].id = op'.id
                        THEN /\ StoredAfter[i].mixType = op'.formData[1].mixType
                             /\ StoredAfter[i].measurements = BlockOf(op'.formData[1])
                        ELSE StoredAfter[i] = Stored[i]
          /\ op'.name = "delete" =>
                 StoredAfter = SelectSeq(Stored, LAMBDA r : r.id # op'.id)]_vars

(***************************************************************************)
(* Properties of the edit modal (EditSpec).                                *)
(***************************************************************************)
\* The stored record an update of the edit modal is aimed at, if it exists.
Target(m) == find(getStoredData(store), m.id)

\* C22: every update the edit modal issues carries the mixType of the stored
\* record it is aimed at.
C22_UpdateKeepsMixType ==
    \A i \in 1..Len(inflight) :
        (inflight[i].origin = "edit" /\ Target(inflight[i]) # <<>>) =>
            inflight[i].formData[1].mixType = Target(inflight[i])[1].mixType

\* An update of the boards/tiir demo record is in flight, issued after the
\* form had held the interlock demo record.
C22_Witness ==
    /\ inflight # <<>>
    /\ inflight[1].origin = "edit"
    /\ inflight[1].id = 2
    /\ inflight[1].formData[1].mixType = "boards/tiir"
    /\ Target(inflight[1]) # <<>>

\* C26: whenever the modal is opened for a record, its form holds the
\* record's products and color type ('No Color' shown as ''), whatever the
\* form held before.
C26_OpenLoadsRecord ==
    [][(editingMix = <<>> /\ editingMix' # <<>>) =>
          /\ editForm'.products = editingMix'[1].measurements.products
          /\ editForm'.colorType = IF editingMix'[1].measurements.colorType = "No Color"
                                   THEN "" ELSE editingMix'[1].measurements.colorType
          /\ editForm'.mixType = editingMix'[1].mixType]_vars

(***************************************************************************)
(* Properties of the data table (TableSpec).                                *)
(***************************************************************************)
BirtaColumn == Len(csvHeader)

\* C23: an export writes the header and one row per record of the listed
\* page, in list order; a row's Birta cell is blank when the record has no
\* birta and holds the birta value (any of 0..9999) when it has one.
C23_ExportRowsAndBirta ==
    [][csv' # csv =>
          /\ csv'.header = csvHeader
          /\ Len(csv'.rows) = Len(query.data)
          /\ \A i \in 1..Len(query.data) :
                 /\ csv'.rows[i][1] = Digits(query.data[i].id)
                 /\ csv'.rows[i][BirtaColumn] =
                        IF query.data[i].measurements.birta.k = "number"
                        THEN Digits(query.data[i].measurements.birta.n)
                        ELSE Blank]_vars

\* C28: the page of the table is at least 1 and at most max(1, totalPages)
\* of the list under the current filter.
C28_PageWithinRange ==
    /\ currentPage >= 1
    /\ currentPage <= max(1, listed.totalPages)

====
